---------------------------- MODULE Spec2Model ----------------------------
(***************************************************************************)
(* A model of src/task.py: the reconciliation of PredictIt contract prices *)
(* with FiveThirtyEight forecasts.                                         *)
(*                                                                         *)
(* A pandas DataFrame is a sequence of records (one record per row, one    *)
(* field per column, the fields named as the columns are).  A price or a   *)
(* probability is a float64, as pandas holds it: the double nearest to the *)
(* decimal of the input, and the arithmetic on it (subtraction, comparison *)
(* and rounding to 2 places) is IEEE 754 double arithmetic, rounding to    *)
(* nearest, ties to even.  A double is held exactly, as a sign and a       *)
(* significand that counts units of 2^-62 in four limbs of 20 bits; a      *)
(* missing value (None / NaN) is the value NaN.                            *)
(*                                                                         *)
(* sort_values is called with its default kind='quicksort', which pandas   *)
(* does not promise to be stable: a sort may return any order of the rows  *)
(* that is sorted by the key.                                              *)
(*                                                                         *)
(* Two specifications share the variables:                                 *)
(*   SpecMerge  merge_fte_and_pi for one chamber (with _filter_pi_data and *)
(*              _get_fte_data), from the raw market and forecast rows;     *)
(*   Spec       create_fte_and_pi_comparison from the merged frame on      *)
(*              (line 110), followed by the summary of create_html_output. *)
(***************************************************************************)
EXTENDS Integers, Sequences, FiniteSets, TLC

VARIABLES
    pc,        \* the position in the program
    err,       \* the exception that ended the run, "none" while it runs
    chamber,   \* merge_fte_and_pi's chamber argument
    pi_data,   \* the market frame: one row per contract
    csv,       \* the forecast file as read by pd.read_csv
    fte,       \* _get_fte_data's result
    pi,        \* merge_fte_and_pi's local pi
    merged,    \* the frame `merged`
    summary    \* create_html_output's summary

vars == <<pc, err, chamber, pi_data, csv, fte, pi, merged, summary>>

-----------------------------------------------------------------------------
(* Bounds and input domains                                                *)

\* The largest number of JoinedRace rows the comparison starts from.
MaxRows == 2

\* A missing value of a number column: NaN in the frame (None in the market
\* data).
NaN == [nan |-> TRUE]

\* A price that the market data does not have (null in the JSON), among the
\* decimals of the input domains.
Null == -1

\* _FORECAST_EXPRESSION
FORECAST_EXPRESSION == "_classic"

\* Quotes of a Democratic contract, <<BuyYes, BuyNo, SellYes, SellNo>>, in
\* thousandths as the market data writes them (700 is 0.70).
QuotesD ==
    { <<400, Null, Null, Null>>, <<Null, Null, 800, 280>> }

\* Quotes of a Republican contract, <<BuyYes, BuyNo, SellYes, SellNo>>.
QuotesR ==
    { <<Null, Null, 100, Null>>, <<200, 400, 600, 680>>, <<Null, 550, Null, 800>> }

\* Forecasts <<winner_Dparty, winner_Rparty>>, in thousandths as the file
\* writes them.
Forecasts == { <<950, 50>>, <<600, 400>> }

\* The markets of the rows of `merged`, by position: name, URL, seat.
Markets ==
    << [mshortName |-> "Which party will win the OK Senate race?",
        murl |-> "https://www.predictit.org/markets/detail/1", seat |-> "OK-SEN"],
       [mshortName |-> "Which party will win the OH Senate race in 2022?",
        murl |-> "https://www.predictit.org/markets/detail/2", seat |-> "OH-SEN"],
       [mshortName |-> "Which party will win PA governor's race?",
        murl |-> "https://www.predictit.org/markets/detail/3", seat |-> "PA-GOV"],
       [mshortName |-> "Which party will win GA governor's race?",
        murl |-> "https://www.predictit.org/markets/detail/4", seat |-> "GA-GOV"] >>

-----------------------------------------------------------------------------
(* float64: significands                                                   *)

\* A significand is <<l1, l2, l3, l4>>, the number
\* ((l1 * Base + l2) * Base + l3) * Base + l4 of units of 2^-62.
Base == 1048576

\* The significand of 0.0.
Zero == <<0, 0, 0, 0>>

\* m * k for a small k.
MulSmall(m, k) ==
    LET p4 == m[4] * k
        p3 == m[3] * k + p4 \div Base
        p2 == m[2] * k + p3 \div Base
        p1 == m[1] * k + p2 \div Base
    IN  <<p1, p2 % Base, p3 % Base, p4 % Base>>

\* m divided by a small d: the quotient q and the remainder r.
DivSmall(m, d) ==
    LET t1 == m[1]
        t2 == (t1 % d) * Base + m[2]
        t3 == (t2 % d) * Base + m[3]
        t4 == (t3 % d) * Base + m[4]
    IN  [q |-> <<t1 \div d, t2 \div d, t3 \div d, t4 \div d>>, r |-> t4 % d]

\* m + n
AddMag(m, n) ==
    LET s4 == m[4] + n[4]
        s3 == m[3] + n[3] + s4 \div Base
        s2 == m[2] + n[2] + s3 \div Base
        s1 == m[1] + n[1] + s2 \div Base
    IN  <<s1, s2 % Base, s3 % Base, s4 % Base>>

\* m - n, for m >= n.  (% gives the residue in 0..Base-1; a limb that
\* borrows is negative before it.)
SubMag(m, n) ==
    LET d4 == m[4] - n[4]
        d3 == m[3] - n[3] - (IF d4 < 0 THEN 1 ELSE 0)
        d2 == m[2] - n[2] - (IF d3 < 0 THEN 1 ELSE 0)
        d1 == m[1] - n[1] - (IF d2 < 0 THEN 1 ELSE 0)
    IN  <<d1, d2 % Base, d3 % Base, d4 % Base>>

\* m < n
LessMag(m, n) ==
    \E i \in 1..4 : m[i] < n[i] /\ \A j \in 1..(i - 1) : m[j] = n[j]

\* The number of bits of a limb.
Bits(x) == IF x = 0 THEN 0 ELSE CHOOSE n \in 1..20 : 2^(n - 1) <= x /\ x < 2^n

\* The number of bits of a significand.
BitLength(m) ==
    IF m[1] > 0 THEN 60 + Bits(m[1])
    ELSE IF m[2] > 0 THEN 40 + Bits(m[2])
    ELSE IF m[3] > 0 THEN 20 + Bits(m[3])
    ELSE Bits(m[4])

\* The exact value m + rem / d (0 <= rem < d) rounded to a double: to 53
\* significant bits, to the nearest, a tie to the even significand.
Round53(m, rem, d) ==
    LET n    == BitLength(m)
        k    == IF n > 53 THEN n - 53 ELSE 0
        unit == 2^k
        low  == m[4] % unit
        odd  == (m[4] \div unit) % 2 = 1
        up   == IF k = 0
                THEN 2 * rem > d \/ (2 * rem = d /\ odd)
                ELSE \/ 2 * low > unit
                     \/ 2 * low = unit /\ (rem > 0 \/ odd)
        base == <<m[1], m[2], m[3], m[4] - low>>
    IN  IF up THEN AddMag(base, <<0, 0, 0, unit>>) ELSE base

-----------------------------------------------------------------------------
(* float64: values and arithmetic with missing values                      *)

\* The double of sign s (-1, 0, 1) and significand m.
Double(s, m) == IF m = Zero THEN [s |-> 0, m |-> Zero] ELSE [s |-> s, m |-> m]

\* n / d in doubles for whole numbers n and d > 0 of at most a thousand.
\* It is also the double a decimal literal n/d is read as.
Quotient(n, d) ==
    LET a  == IF n < 0 THEN 0 - n ELSE n
        qr == DivSmall(<<4 * a, 0, 0, 0>>, d)
    IN  Double(IF n < 0 THEN -1 ELSE 1, Round53(qr.q, qr.r, d))

\* The float64 a number of the input is held as: x is the decimal in
\* thousandths, Null a missing one.
float64(x) == IF x = Null THEN NaN ELSE Quotient(x, 1000)

\* _MIN_PROFIT_PER_SHARE = 0.05
MIN_PROFIT_PER_SHARE == float64(50)

\* a < b on two doubles that are not missing.
Less(a, b) ==
    IF a.s # b.s THEN a.s < b.s
    ELSE IF a.s = 1 THEN LessMag(a.m, b.m)
    ELSE IF a.s = -1 THEN LessMag(b.m, a.m)
    ELSE FALSE

\* a - b on two columns: NaN when either operand is missing, else the
\* exact difference rounded to a double.
Sub(a, b) ==
    IF a = NaN \/ b = NaN THEN NaN
    ELSE LET exact == IF b.s = 0 THEN a
                      ELSE IF a.s = 0 THEN [s |-> 0 - b.s, m |-> b.m]
                      ELSE IF a.s # b.s THEN [s |-> a.s, m |-> AddMag(a.m, b.m)]
                      ELSE IF LessMag(a.m, b.m)
                           THEN [s |-> 0 - a.s, m |-> SubMag(b.m, a.m)]
                      ELSE [s |-> a.s, m |-> SubMag(a.m, b.m)]
         IN  Double(exact.s, Round53(exact.m, 0, 1))

\* a >= b as pandas compares: a comparison with NaN is False.
Ge(a, b) == a # NaN /\ b # NaN /\ ~Less(a, b)

\* np.rint of a double that is not missing: the nearest whole number, a
\* half to the even one.
rint(x) ==
    LET whole == x.m[1] \div 4
        frac  == <<x.m[1] % 4, x.m[2], x.m[3], x.m[4]>>
        half  == <<2, 0, 0, 0>>
        up    == LessMag(half, frac) \/ (frac = half /\ whole % 2 = 1)
    IN  x.s * (IF up THEN whole + 1 ELSE whole)

\* Series.round(2), which numpy computes as rint(x * 100.0) / 100.0, each
\* step in doubles; NaN stays NaN.
round2(x) ==
    IF x = NaN THEN NaN
    ELSE Quotient(rint(Double(x.s, Round53(MulSmall(x.m, 100), 0, 1))), 100)

-----------------------------------------------------------------------------
(* The JoinedRace row merge_fte_and_pi returns for a market, the quotes of *)
(* its two contracts and its forecast.                                     *)

JoinedRace(m, d, r, f) ==
    [ mshortName |-> m.mshortName, murl |-> m.murl, seat |-> m.seat,
      bestBuyYesCostD  |-> float64(d[1]), bestBuyNoCostD  |-> float64(d[2]),
      bestSellYesCostD |-> float64(d[3]), bestSellNoCostD |-> float64(d[4]),
      bestBuyYesCostR  |-> float64(r[1]), bestBuyNoCostR  |-> float64(r[2]),
      bestSellYesCostR |-> float64(r[3]), bestSellNoCostR |-> float64(r[4]),
      fteD |-> float64(f[1]), fteR |-> float64(f[2]) ]

-----------------------------------------------------------------------------
(* add_profit_columns                                                      *)

\* A faulty variant of ProfitColumns: the sell profits computed as the buy
\* profits are, forecast - price.
ProfitColumnsBuySign(row) ==
    [ profit_bestBuyYesCostD  |-> Sub(row.fteD, row.bestBuyYesCostD),
      profit_bestBuyNoCostR   |-> Sub(row.fteD, row.bestBuyNoCostR),
      profit_bestBuyYesCostR  |-> Sub(row.fteR, row.bestBuyYesCostR),
      profit_bestBuyNoCostD   |-> Sub(row.fteR, row.bestBuyNoCostD),
      profit_bestSellYesCostD |-> Sub(row.fteD, row.bestSellYesCostD),
      profit_bestSellNoCostR  |-> Sub(row.fteD, row.bestSellNoCostR),
      profit_bestSellYesCostR |-> Sub(row.fteR, row.bestSellYesCostR),
      profit_bestSellNoCostD  |-> Sub(row.fteR, row.bestSellNoCostD) ]

ProfitColumns(row) ==
    [ profit_bestBuyYesCostD  |-> Sub(row.fteD, row.bestBuyYesCostD),
      profit_bestBuyNoCostR   |-> Sub(row.fteD, row.bestBuyNoCostR),
      profit_bestBuyYesCostR  |-> Sub(row.fteR, row.bestBuyYesCostR),
      profit_bestBuyNoCostD   |-> Sub(row.fteR, row.bestBuyNoCostD),
      profit_bestSellYesCostD |-> Sub(row.bestSellYesCostD, row.fteD),
      profit_bestSellNoCostR  |-> Sub(row.bestSellNoCostR, row.fteD),
      profit_bestSellYesCostR |-> Sub(row.bestSellYesCostR, row.fteR),
      profit_bestSellNoCostD  |-> Sub(row.bestSellNoCostD, row.fteR) ]

add_profit_columns(df) ==
    [i \in 1..Len(df) |-> ProfitColumns(df[i]) @@ df[i]]


-----------------------------------------------------------------------------
(* re.search and str methods                                               *)

\* The character of str at position p.
char(str, p) == SubSeq(str, p, p)

\* str has the text lit at position p.
At(str, p, lit) ==
    /\ p + Len(lit) - 1 <= Len(str)
    /\ SubSeq(str, p, p + Len(lit) - 1) = lit

\* [A-Z]
UpperCase == "ABCDEFGHIJKLMNOPQRSTUVWXYZ"

LowerCase == "abcdefghijklmnopqrstuvwxyz"

\* A pattern is the sequence of its parts.  A part is a literal text
\* (kind "lit"), the class [A-Z] twice (kind "upper2"), alternatives tried
\* from the left (kind "alt") or a text that may be absent (kind "opt", the
\* operator ?); a part in parentheses is a group.
Lit(text) == [kind |-> "lit", text |-> text, group |-> FALSE]

Group(text) == [kind |-> "lit", text |-> text, group |-> TRUE]

GroupUpper2 == [kind |-> "upper2", group |-> TRUE]

GroupAlt(options) == [kind |-> "alt", options |-> options, group |-> TRUE]

Opt(text) == [kind |-> "opt", text |-> text, group |-> FALSE]

\* What a part adds to the groups of a match.
Capture(part, text) == IF part.group THEN <<text>> ELSE <<>>

RECURSIVE MatchFrom(_, _, _)
\* The match of a pattern at position p of str: the set of its tuple of
\* groups, empty when the pattern does not match there.
MatchFrom(pattern, str, p) ==
    IF pattern = <<>> THEN {<<>>}
    ELSE LET part == Head(pattern)
             rest == Tail(pattern)
         IN  CASE part.kind = "lit" ->
                    IF At(str, p, part.text)
                    THEN { Capture(part, part.text) \o g :
                             g \in MatchFrom(rest, str, p + Len(part.text)) }
                    ELSE {}
               [] part.kind = "upper2" ->
                    IF /\ p + 1 <= Len(str)
                       /\ \E i, j \in 1..26 : /\ char(str, p) = char(UpperCase, i)
                                              /\ char(str, p + 1) = char(UpperCase, j)
                    THEN { Capture(part, SubSeq(str, p, p + 1)) \o g :
                             g \in MatchFrom(rest, str, p + 2) }
                    ELSE {}
               [] part.kind = "alt" ->
                    LET ok == { i \in 1..Len(part.options) :
                                  /\ At(str, p, part.options[i])
                                  /\ MatchFrom(rest, str, p + Len(part.options[i])) # {} }
                    IN  IF ok = {} THEN {}
                        ELSE LET first == CHOOSE i \in ok : \A j \in ok : i <= j
                             IN  { Capture(part, part.options[first]) \o g :
                                     g \in MatchFrom(rest, str,
                                                     p + Len(part.options[first])) }
               [] part.kind = "opt" ->
                    LET taken == IF At(str, p, part.text)
                                 THEN MatchFrom(rest, str, p + Len(part.text))
                                 ELSE {}
                    IN  IF taken # {} THEN taken ELSE MatchFrom(rest, str, p)

RECURSIVE SearchFrom(_, _, _)
\* The groups of the leftmost match of a pattern at position p of str or
\* later, the empty tuple when there is none.
SearchFrom(pattern, str, p) ==
    IF p > Len(str) + 1 THEN <<>>
    ELSE LET here == MatchFrom(pattern, str, p)
         IN  IF here # {} THEN CHOOSE g \in here : TRUE
             ELSE SearchFrom(pattern, str, p + 1)

\* re.search(pattern, str).groups(): the groups of the leftmost match; for a
\* str in which the pattern is not found (None in the source) the empty
\* tuple.
re_search(pattern, str) == SearchFrom(pattern, str, 1)

\* str.upper() of one character.
upper_char(c) ==
    LET at == { i \in 1..26 : char(LowerCase, i) = c }
    IN  IF at = {} THEN c ELSE char(UpperCase, CHOOSE i \in at : TRUE)

RECURSIVE upper(_)
\* str.upper()
upper(str) ==
    IF str = "" THEN ""
    ELSE upper_char(char(str, 1)) \o upper(SubSeq(str, 2, Len(str)))

RECURSIVE join(_, _)
\* sep.join(strs)
join(sep, strs) ==
    IF strs = <<>> THEN ""
    ELSE IF Len(strs) = 1 THEN strs[1]
    ELSE strs[1] \o sep \o join(sep, Tail(strs))

-----------------------------------------------------------------------------
(* add_action_columns                                                      *)

\* str.title() of the two directions.
title(side) == IF side = "buy" THEN "Buy" ELSE "Sell"

\* The four cost columns of a direction, in the order of the source.
cost_columns(side) ==
    << "best" \o title(side) \o "YesCostD", "best" \o title(side) \o "NoCostR",
       "best" \o title(side) \o "YesCostR", "best" \o title(side) \o "NoCostD" >>

\* The four profit columns selected from the frame, in that order.
profit_columns(side) ==
    [k \in 1..4 |-> "profit_" \o cost_columns(side)[k]]

\* Series.max(): the largest value that is not missing, NaN when all are.
SeriesMax(series) ==
    LET present == {k \in DOMAIN series : series[k] # NaN}
    IN  IF present = {} THEN NaN
        ELSE CHOOSE v \in {series[k] : k \in present} :
                 \A k \in present : ~Less(v, series[k])

\* A faulty variant of SeriesIdxmax: the label of the last occurrence of the
\* maximum.
SeriesIdxmaxLast(series, labels) ==
    LET present == {k \in DOMAIN series : series[k] # NaN}
    IN  IF present = {} THEN "nan"
        ELSE LET last == CHOOSE k \in present :
                     /\ series[k] = SeriesMax(series)
                     /\ \A j \in present : series[j] = SeriesMax(series) => j <= k
             IN  labels[last]

\* Series.idxmax(): the label of the first occurrence of the maximum among
\* the values that are not missing; the float nan, which is no column label
\* (here the label "nan"), when all are missing.
SeriesIdxmax(series, labels) ==
    LET present == {k \in DOMAIN series : series[k] # NaN}
    IN  IF present = {} THEN "nan"
        ELSE LET first == CHOOSE k \in present :
                     /\ series[k] = SeriesMax(series)
                     /\ \A j \in present : series[j] = SeriesMax(series) => k <= j
             IN  labels[first]

\* 'profit_best(Buy|Sell)(Yes|No)Cost([DR])'
action_pattern ==
    << Lit("profit_best"), GroupAlt(<<"Buy", "Sell">>), GroupAlt(<<"Yes", "No">>),
       Lit("Cost"), GroupAlt(<<"D", "R">>) >>

\* re.search('profit_best(Buy|Sell)(Yes|No)Cost([DR])', name).groups()
groups(name) == re_search(action_pattern, name)

\* '{} {} on the {}'.format(x[0], x[1], dict(D='Democrat', R='Republican')[x[2]])
format_rec(x) ==
    x[1] \o " " \o x[2] \o " on the "
         \o (IF x[3] = "D" THEN "Democrat" ELSE "Republican")

\* One column of `transposed`: the four candidate profits of a row.
transposed(row, side) == [k \in 1..4 |-> row[profit_columns(side)[k]]]

\* re.search(pattern, idxmax) raises TypeError when idxmax is the float nan,
\* which it is for a row whose four profits of the direction are all missing.
RaisesTypeError(df, side) ==
    \E i \in 1..Len(df) :
        SeriesIdxmax(transposed(df[i], side), profit_columns(side)) = "nan"

\* merged.join(pd.DataFrame([])) has no actionRec column: merged.actionRec
\* raises AttributeError for an empty frame.
RaisesAttributeError(df) == Len(df) = 0

ActionColumns(row, side) ==
    [ actionRec    |-> format_rec(groups(
                           SeriesIdxmax(transposed(row, side), profit_columns(side)))),
      actionProfit |-> SeriesMax(transposed(row, side)),
      actionSide   |-> side ]

add_action_columns(df, side) ==
    [i \in 1..Len(df) |-> ActionColumns(df[i], side) @@ df[i]]

-----------------------------------------------------------------------------
(* create_fte_and_pi_comparison, lines 112-117, and DataFrame.sort_values  *)

RECURSIVE Orderings(_, _)
\* The orders in which a sort by `keys` (ascending) may leave the positions
\* idx: sort_values sorts with kind='quicksort', which is not stable, so rows
\* with equal keys come out in any order.
Orderings(keys, idx) ==
    IF idx = {} THEN {<<>>}
    ELSE LET least == {i \in idx : \A j \in idx : keys[i] <= keys[j]}
         IN  UNION { {<<i>> \o t : t \in Orderings(keys, idx \ {i})} : i \in least }

\* df.sort_values(column): the frames it may return, `keys` being whole
\* numbers that order as the column's values do.
sort_values(df, keys) ==
    { [k \in 1..Len(df) |-> df[p[k]]] : p \in Orderings(keys, 1..Len(df)) }

\* The order of the strings of actionSide: 'buy' < 'sell'.
SideKey(side) == IF side = "buy" THEN 1 ELSE 2

\* A faulty variant of FilterMinProfit: the threshold test on the rounded
\* profit.
FilterMinProfitRounded(df) ==
    SelectSeq(df, LAMBDA row : Ge(round2(row.actionProfit), MIN_PROFIT_PER_SHARE))

\* A faulty variant of FilterMinProfit: a profit equal to the threshold is
\* dropped.
FilterMinProfitStrict(df) ==
    SelectSeq(df, LAMBDA row : /\ row.actionProfit # NaN
                               /\ Less(MIN_PROFIT_PER_SHARE, row.actionProfit))

\* merged[merged.actionProfit >= _MIN_PROFIT_PER_SHARE]
FilterMinProfit(df) ==
    SelectSeq(df, LAMBDA row : Ge(row.actionProfit, MIN_PROFIT_PER_SHARE))

\* .sort_values('actionSide')
SortByActionSide(df) ==
    sort_values(df, [i \in 1..Len(df) |-> SideKey(df[i].actionSide)])

\* A faulty variant of SortByActionProfit: ascending.
SortByActionProfitAscending(df) ==
    sort_values(df, [i \in 1..Len(df) |->
        Cardinality({j \in 1..Len(df) : Less(df[j].actionProfit, df[i].actionProfit)})])

\* .sort_values('actionProfit', ascending=False): a row's key is the number
\* of rows of a larger profit.
SortByActionProfit(df) ==
    sort_values(df, [i \in 1..Len(df) |->
        Cardinality({j \in 1..Len(df) : Less(df[i].actionProfit, df[j].actionProfit)})])

\* Lines 115-117: fteD, fteR and actionProfit rounded to 2 places.
RoundColumns(df) ==
    [i \in 1..Len(df) |->
        [df[i] EXCEPT !.fteD = round2(@), !.fteR = round2(@),
                      !.actionProfit = round2(@)]]

-----------------------------------------------------------------------------
(* create_html_output, lines 123-124: the summary                          *)

\* The eight recommendations in the order of their strings, which is the
\* order in which groupby('actionRec') lists its groups.
SortedLabels ==
    << "Buy No on the Democrat", "Buy No on the Republican",
       "Buy Yes on the Democrat", "Buy Yes on the Republican",
       "Sell No on the Democrat", "Sell No on the Republican",
       "Sell Yes on the Democrat", "Sell Yes on the Republican" >>

\* merged.groupby('actionRec', as_index=False).agg(dict(murl='count', seat=', '.join))
groupby_agg(df) ==
    LET present == SelectSeq(SortedLabels,
                       LAMBDA l : \E i \in 1..Len(df) : df[i].actionRec = l)
        rows(l) == SelectSeq(df, LAMBDA row : row.actionRec = l)
    IN  [g \in 1..Len(present) |->
            [ actionRec |-> present[g],
              murl      |-> Len(rows(present[g])),
              seat      |-> join(", ", [k \in 1..Len(rows(present[g])) |->
                                            rows(present[g])[k].seat]) ]]

\* A faulty variant of SortByCount: ascending.
SortByCountAscending(groups_) ==
    sort_values(groups_, [g \in 1..Len(groups_) |-> groups_[g].murl])

\* .sort_values(by='murl', ascending=False)
SortByCount(groups_) ==
    sort_values(groups_, [g \in 1..Len(groups_) |-> 0 - groups_[g].murl])

-----------------------------------------------------------------------------
(* Spec: the comparison from the merged frame on                           *)

\* The inputs of one JoinedRace row.
RowInputs == QuotesD \X QuotesR \X Forecasts

Init ==
    /\ pc = "merged"
    /\ err = "none"
    /\ chamber = "all"
    /\ pi_data = <<>>
    /\ csv = <<>>
    /\ fte = <<>>
    /\ pi = <<>>
    /\ summary = <<>>
    /\ \E n \in 0..MaxRows :
         \E q \in [1..n -> RowInputs] :
           merged = [i \in 1..n |-> JoinedRace(Markets[i], q[i][1], q[i][2], q[i][3])]

\* Line 110.
AddProfitColumns ==
    /\ pc = "merged"
    /\ merged' = add_profit_columns(merged)
    /\ pc' = "profits"
    /\ UNCHANGED <<err, chamber, pi_data, csv, fte, pi, summary>>

\* Line 111: add_action_columns for 'buy', then for 'sell', concatenated.
AddActionColumns ==
    /\ pc = "profits"
    /\ \/ /\ RaisesAttributeError(merged)
          /\ err' = "AttributeError"
          /\ pc' = "error"
          /\ UNCHANGED merged
       \/ /\ ~RaisesAttributeError(merged)
          /\ RaisesTypeError(merged, "buy") \/ RaisesTypeError(merged, "sell")
          /\ err' = "TypeError"
          /\ pc' = "error"
          /\ UNCHANGED merged
       \/ /\ ~RaisesAttributeError(merged)
          /\ ~RaisesTypeError(merged, "buy")
          /\ ~RaisesTypeError(merged, "sell")
          /\ merged' = add_action_columns(merged, "buy")
                           \o add_action_columns(merged, "sell")
          /\ pc' = "actions"
          /\ UNCHANGED err
    /\ UNCHANGED <<chamber, pi_data, csv, fte, pi, summary>>

\* Lines 112-113: the filter and the two sorts.
FilterAndRank ==
    /\ pc = "actions"
    /\ \E bySide \in SortByActionSide(FilterMinProfit(merged)) :
           merged' \in SortByActionProfit(bySide)
    /\ pc' = "sorted"
    /\ UNCHANGED <<err, chamber, pi_data, csv, fte, pi, summary>>

\* Lines 115-119.
RoundAndReturn ==
    /\ pc = "sorted"
    /\ merged' = RoundColumns(merged)
    /\ pc' = "ranked"
    /\ UNCHANGED <<err, chamber, pi_data, csv, fte, pi, summary>>

\* Lines 123-124.
CreateSummary ==
    /\ pc = "ranked"
    /\ summary' \in SortByCount(groupby_agg(merged))
    /\ pc' = "done"
    /\ UNCHANGED <<err, chamber, pi_data, csv, fte, pi, merged>>

Next ==
    \/ AddProfitColumns
    \/ AddActionColumns
    \/ FilterAndRank
    \/ RoundAndReturn
    \/ CreateSummary

Spec == Init /\ [][Next]_vars

-----------------------------------------------------------------------------
(* merge_fte_and_pi, with _filter_pi_data and _get_fte_data                *)

\* None in a column of strings (state and seat of a market whose name does
\* not match the chamber's pattern).
None == "None"

\* _CHAMBERS['patterns'][chamber]:
\*   senate:   'Which party will win the ([A-Z]{2}) (Sen)ate race'
\*   governor: 'Which party will win ([A-Z]{2}) (gov)ernor\'s race?'
patterns(chamber_) ==
    IF chamber_ = "senate"
    THEN << Lit("Which party will win the "), GroupUpper2, Lit(" "),
            Group("Sen"), Lit("ate race") >>
    ELSE << Lit("Which party will win "), GroupUpper2, Lit(" "),
            Group("gov"), Lit("ernor's rac"), Opt("e") >>

\* pd.DataFrame([]), the frame of no rows, has no columns: reading its
\* column mshortName raises AttributeError.
NoColumns(df) == Len(df) = 0

\* _filter_pi_data: the cbest... columns renamed best..., and the columns
\* state and seat added.
filter_pi_data(data, chamber_) ==
    [i \in 1..Len(data) |->
        LET x == re_search(patterns(chamber_), data[i].mshortName)
        IN  [ mshortName      |-> data[i].mshortName,
              murl            |-> data[i].murl,
              cname           |-> data[i].cname,
              bestBuyYesCost  |-> data[i].cbestBuyYesCost,
              bestBuyNoCost   |-> data[i].cbestBuyNoCost,
              bestSellYesCost |-> data[i].cbestSellYesCost,
              bestSellNoCost  |-> data[i].cbestSellNoCost,
              state           |-> IF x = <<>> THEN None ELSE x[1],
              seat            |-> IF x = <<>> THEN None ELSE upper(join("-", x)) ]]

\* x.split('-', 1)[0]: the text before the first '-', all of x when it has
\* none.
split_district(x) ==
    LET dashes == { p \in 1..Len(x) : char(x, p) = "-" }
    IN  IF dashes = {} THEN x
        ELSE SubSeq(x, 1, (CHOOSE p \in dashes : \A q \in dashes : p <= q) - 1)

\* DataFrame.drop_duplicates(keep='first', subset=subset): a row is dropped
\* when an earlier row has its values in the columns of subset.
drop_duplicates(df, subset) ==
    LET keep == { i \in 1..Len(df) :
                    \A j \in 1..(i - 1) : \E c \in subset : df[j][c] # df[i][c] }
        nth(k) == CHOOSE i \in keep : Cardinality({j \in keep : j <= i}) = k
    IN  [k \in 1..Cardinality(keep) |-> df[nth(k)]]

\* fte[fte.expression == _FORECAST_EXPRESSION]
SelectExpression(df) ==
    SelectSeq(df, LAMBDA row : row.expression = FORECAST_EXPRESSION)

\* A faulty variant of get_fte_data: the duplicates dropped before the
\* variant is selected.
get_fte_data_dedup_first(file) ==
    LET kept == SelectExpression(drop_duplicates(file, {"district"}))
    IN  [i \in 1..Len(kept) |->
            [ winner_Dparty |-> kept[i].winner_Dparty,
              winner_Rparty |-> kept[i].winner_Rparty,
              state         |-> split_district(kept[i].district) ]]

\* _get_fte_data, from the file as read.
get_fte_data(file) ==
    LET kept == drop_duplicates(SelectExpression(file), {"district"})
    IN  [i \in 1..Len(kept) |->
            [ winner_Dparty |-> kept[i].winner_Dparty,
              winner_Rparty |-> kept[i].winner_Rparty,
              state         |-> split_district(kept[i].district) ]]

RECURSIVE Flatten(_)
\* The concatenation of a sequence of frames.
Flatten(frames) ==
    IF frames = <<>> THEN <<>> ELSE Head(frames) \o Flatten(Tail(frames))

\* left.merge(right, on=columns): the pairs of the inner join, each left row
\* with the right rows whose key columns are equal to its own.
InnerJoin(left, right, columns) ==
    Flatten([i \in 1..Len(left) |->
                LET matches == SelectSeq(right,
                                   LAMBDA r : \A c \in columns : left[i][c] = r[c])
                IN  [k \in 1..Len(matches) |-> <<left[i], matches[k]>>]])

\* A faulty variant of separate_by_party: the contracts of every party.
separate_any_party(frame, party) ==
    [i \in 1..Len(frame) |->
        [f \in DOMAIN frame[i] \ {"cname"} |-> frame[i][f]]]

\* _separate_by_party: pi[pi.cname == party].drop(columns='cname')
separate_by_party(frame, party) ==
    LET rows == SelectSeq(frame, LAMBDA row : row.cname = party)
    IN  [i \in 1..Len(rows) |->
            [f \in DOMAIN rows[i] \ {"cname"} |-> rows[i][f]]]

\* Lines 67-68: the Democratic and the Republican contracts joined on
\* mshortName, murl, state and seat, the other columns suffixed D and R.
merge_parties(frame) ==
    LET pairs == InnerJoin(separate_by_party(frame, "Democratic"),
                           separate_by_party(frame, "Republican"),
                           {"mshortName", "murl", "state", "seat"})
    IN  [i \in 1..Len(pairs) |->
            LET d == pairs[i][1]
                r == pairs[i][2]
            IN  [ mshortName |-> d.mshortName, murl |-> d.murl,
                  state |-> d.state, seat |-> d.seat,
                  bestBuyYesCostD |-> d.bestBuyYesCost,
                  bestBuyNoCostD |-> d.bestBuyNoCost,
                  bestSellYesCostD |-> d.bestSellYesCost,
                  bestSellNoCostD |-> d.bestSellNoCost,
                  bestBuyYesCostR |-> r.bestBuyYesCost,
                  bestBuyNoCostR |-> r.bestBuyNoCost,
                  bestSellYesCostR |-> r.bestSellYesCost,
                  bestSellNoCostR |-> r.bestSellNoCost ]]

\* Lines 70-74: joined with the forecasts on state, state dropped, the
\* forecast columns renamed fteD and fteR.
merge_fte(frame, forecasts) ==
    LET pairs == InnerJoin(frame, forecasts, {"state"})
    IN  [i \in 1..Len(pairs) |->
            [f \in DOMAIN pairs[i][1] \ {"state"} |-> pairs[i][1][f]]
                @@ [fteD |-> pairs[i][2].winner_Dparty,
                    fteR |-> pairs[i][2].winner_Rparty]]

-----------------------------------------------------------------------------
(* SpecMerge: merge_fte_and_pi for one chamber                             *)

\* The contract `name` of the model's market m as the market data has it:
\* its quotes in thousandths, those of the variant v of the contract (1 or
\* 2: a market may list two contracts of one name).
Contract(m, name, v) ==
    IF name = "Democratic"
    THEN [ name |-> name,
           bestBuyYesCost  |-> 700 - 10 * m - 20 * (v - 1),
           bestBuyNoCost   |-> 300 + 10 * m + 20 * (v - 1),
           bestSellYesCost |-> 680 - 10 * m - 20 * (v - 1),
           bestSellNoCost  |-> 280 + 10 * m + 20 * (v - 1) ]
    ELSE IF name = "Republican"
    THEN [ name |-> name,
           bestBuyYesCost  |-> 300 + 10 * m, bestBuyNoCost  |-> 700 - 10 * m,
           bestSellYesCost |-> 280 + 10 * m, bestSellNoCost |-> Null ]
    ELSE [ name |-> name,
           bestBuyYesCost  |-> 20,   bestBuyNoCost  |-> Null,
           bestSellYesCost |-> Null, bestSellNoCost |-> Null ]

\* The lists of contracts the model's market m may have: in either order,
\* with a contract listed twice, with two contracts of one name and with a
\* contract of a third party.
ContractLists(m) ==
    LET D  == Contract(m, "Democratic", 1)
        D2 == Contract(m, "Democratic", 2)
        R  == Contract(m, "Republican", 1)
        L  == Contract(m, "Libertarian", 1)
    IN  CASE m = 1 -> { <<>>, <<D>>, <<D, R>>, <<R, D>>, <<D, D, R>>,
                        <<D, D2, R>>, <<D, R, L>> }
          [] m = 2 -> { <<>>, <<D>>, <<D, R>> }
          [] m = 3 -> { <<>>, <<R, D>> }
          [] m = 4 -> { <<>>, <<D, R>> }

\* The markets of the market data, without their contracts: two Senate
\* races, a governor's race and a market of another kind.
PiMarkets ==
    << [shortName |-> Markets[1].mshortName, url |-> Markets[1].murl],
       [shortName |-> Markets[2].mshortName, url |-> Markets[2].murl],
       [shortName |-> Markets[3].mshortName, url |-> Markets[3].murl],
       [shortName |-> "Who will win the 2022 OK Republican Senate nomination?",
        url |-> "https://www.predictit.org/markets/detail/5"] >>

\* _get_pi_contracts: one row of the market frame.
get_pi_contracts(market, contract) ==
    [ mshortName       |-> market.shortName,
      murl             |-> market.url,
      cname            |-> contract.name,
      cbestBuyYesCost  |-> float64(contract.bestBuyYesCost),
      cbestBuyNoCost   |-> float64(contract.bestBuyNoCost),
      cbestSellYesCost |-> float64(contract.bestSellYesCost),
      cbestSellNoCost  |-> float64(contract.bestSellNoCost) ]

\* The columns of the market frame.
PiColumns ==
    { "mshortName", "murl", "cname", "cbestBuyYesCost", "cbestBuyNoCost",
      "cbestSellYesCost", "cbestSellNoCost" }

\* _get_pi_markets: a row for every contract of every market, in the order
\* of the lists, the rows equal to an earlier row dropped.
get_pi_markets(markets) ==
    drop_duplicates(
        Flatten([m \in 1..Len(markets) |->
                    [k \in 1..Len(markets[m].contracts) |->
                        get_pi_contracts(markets[m], markets[m].contracts[k])]]),
        PiColumns)

\* The largest number of rows of the forecast file.
MaxCsv == 3

\* The rows a chamber's forecast file may have: <<district, expression>>.
CsvRows(chamber_) ==
    IF chamber_ = "senate"
    THEN { <<"OK-S2", "_classic">>, <<"OK-S3", "_classic">>, <<"OK-S2", "_deluxe">> }
    ELSE { <<"PA-G1", "_classic">>, <<"OK-G1", "_classic">>, <<"PA-G1", "_deluxe">> }

\* The forecasts of the file's rows, by position, in thousandths.
CsvForecasts ==
    << <<750, 250>>, <<596, 402>>, <<620, 380>>, <<510, 490>>, <<430, 570>> >>

InitMerge ==
    /\ pc = "start"
    /\ err = "none"
    /\ chamber \in {"senate", "governor"}
    /\ \E c1 \in ContractLists(1), c2 \in ContractLists(2),
          c3 \in ContractLists(3), c4 \in ContractLists(4) :
         pi_data = get_pi_markets(
                       [m \in 1..4 |->
                           [ shortName |-> PiMarkets[m].shortName,
                             url       |-> PiMarkets[m].url,
                             contracts |-> <<c1, c2, c3, c4>>[m] ]])
    /\ \E n \in 0..MaxCsv :
         \E rows \in [1..n -> CsvRows(chamber)] :
           csv = [k \in 1..n |->
                    [ district      |-> rows[k][1],
                      expression    |-> rows[k][2],
                      winner_Dparty |-> float64(CsvForecasts[k][1]),
                      winner_Rparty |-> float64(CsvForecasts[k][2]) ]]
    /\ fte = <<>>
    /\ pi = <<>>
    /\ merged = <<>>
    /\ summary = <<>>

\* Lines 62-63.  _filter_pi_data raises AttributeError on line 44 for market
\* data without a contract; else the rows whose state is not missing are
\* kept.
FilterPiData ==
    /\ pc = "start"
    /\ \/ /\ NoColumns(pi_data)
          /\ err' = "AttributeError"
          /\ pc' = "error"
          /\ UNCHANGED pi
       \/ /\ ~NoColumns(pi_data)
          /\ pi' = SelectSeq(filter_pi_data(pi_data, chamber),
                             LAMBDA row : row.state # None)
          /\ pc' = "filtered"
          /\ UNCHANGED err
    /\ UNCHANGED <<chamber, pi_data, csv, fte, merged, summary>>

\* Line 64.
GetFteData ==
    /\ pc = "filtered"
    /\ fte' = get_fte_data(csv)
    /\ pc' = "fte"
    /\ UNCHANGED <<err, chamber, pi_data, csv, pi, merged, summary>>

\* Lines 66-68.
MergeParties ==
    /\ pc = "fte"
    /\ pi' = merge_parties(pi)
    /\ pc' = "parties"
    /\ UNCHANGED <<err, chamber, pi_data, csv, fte, merged, summary>>

\* Lines 70-75.
MergeFte ==
    /\ pc = "parties"
    /\ merged' = merge_fte(pi, fte)
    /\ pc' = "merged"
    /\ UNCHANGED <<err, chamber, pi_data, csv, fte, pi, summary>>

NextMerge ==
    \/ FilterPiData
    \/ GetFteData
    \/ MergeParties
    \/ MergeFte

SpecMerge == InitMerge /\ [][NextMerge]_vars

-----------------------------------------------------------------------------
(* Properties of the comparison (Spec)                                     *)

\* The four candidates of a direction in the order Yes-D, No-R, Yes-R, No-D,
\* each with its recommendation, read from a row's profit columns.
Candidates(row, side) ==
    IF side = "buy"
    THEN << [profit |-> row.profit_bestBuyYesCostD, rec |-> "Buy Yes on the Democrat"],
            [profit |-> row.profit_bestBuyNoCostR,  rec |-> "Buy No on the Republican"],
            [profit |-> row.profit_bestBuyYesCostR, rec |-> "Buy Yes on the Republican"],
            [profit |-> row.profit_bestBuyNoCostD,  rec |-> "Buy No on the Democrat"] >>
    ELSE << [profit |-> row.profit_bestSellYesCostD, rec |-> "Sell Yes on the Democrat"],
            [profit |-> row.profit_bestSellNoCostR,  rec |-> "Sell No on the Republican"],
            [profit |-> row.profit_bestSellYesCostR, rec |-> "Sell Yes on the Republican"],
            [profit |-> row.profit_bestSellNoCostD,  rec |-> "Sell No on the Democrat"] >>

\* The defined profits among four candidates.
Defined(cands) == {cands[k].profit : k \in {j \in 1..4 : cands[j].profit # NaN}}

\* The largest defined profit (for a non-empty Defined).
BruteMax(cands) == CHOOSE v \in Defined(cands) : \A w \in Defined(cands) : ~Less(v, w)

\* The recommendation of the first candidate whose profit is v.
FirstWith(cands, v) ==
    cands[CHOOSE k \in 1..4 :
              /\ cands[k].profit = v
              /\ \A j \in 1..(k - 1) : cands[j].profit # v].rec

ProfitNames ==
    { "profit_bestBuyYesCostD", "profit_bestBuyNoCostR", "profit_bestBuyYesCostR",
      "profit_bestBuyNoCostD", "profit_bestSellYesCostD", "profit_bestSellNoCostR",
      "profit_bestSellYesCostR", "profit_bestSellNoCostD" }

\* forecast - price in doubles, undefined exactly when the price is missing.
BuyProfit(forecast, price) == IF price = NaN THEN NaN ELSE Sub(forecast, price)

\* price - forecast in doubles, undefined exactly when the price is missing.
SellProfit(forecast, price) == IF price = NaN THEN NaN ELSE Sub(price, forecast)

\* C1: add_profit_columns gives every JoinedRace row exactly the eight
\* profits of the formulas (buy: forecast - price, sell: price - forecast,
\* the D forecast for Yes-D and No-R, the R forecast for Yes-R and No-D),
\* the differences being those of the doubles the row holds;
\* each profit is undefined exactly when its price is missing, and every
\* other field of the row keeps its value.
C1_ProfitFormulas ==
    [][pc = "merged" =>
        /\ Len(merged') = Len(merged)
        /\ \A i \in 1..Len(merged) :
             LET r == merged[i]
                 p == merged'[i]
             IN  /\ DOMAIN p = DOMAIN r \cup ProfitNames
                 /\ \A f \in DOMAIN r : p[f] = r[f]
                 /\ p.profit_bestBuyYesCostD  = BuyProfit(r.fteD, r.bestBuyYesCostD)
                 /\ p.profit_bestBuyNoCostR   = BuyProfit(r.fteD, r.bestBuyNoCostR)
                 /\ p.profit_bestBuyYesCostR  = BuyProfit(r.fteR, r.bestBuyYesCostR)
                 /\ p.profit_bestBuyNoCostD   = BuyProfit(r.fteR, r.bestBuyNoCostD)
                 /\ p.profit_bestSellYesCostD = SellProfit(r.fteD, r.bestSellYesCostD)
                 /\ p.profit_bestSellNoCostR  = SellProfit(r.fteD, r.bestSellNoCostR)
                 /\ p.profit_bestSellYesCostR = SellProfit(r.fteR, r.bestSellYesCostR)
                 /\ p.profit_bestSellNoCostD  = SellProfit(r.fteR, r.bestSellNoCostD)
    ]_vars

\* C1's case: a row with its profits computed, one of them undefined (a
\* missing price), one positive and one negative.
C1_Witness ==
    /\ pc = "profits"
    /\ \E i \in 1..Len(merged) :
         /\ merged[i].bestBuyNoCostD = NaN
         /\ merged[i].profit_bestBuyNoCostD = NaN
         /\ merged[i].profit_bestBuyYesCostD # NaN
         /\ merged[i].profit_bestBuyYesCostD.s = 1
         /\ merged[i].profit_bestSellNoCostR # NaN
         /\ merged[i].profit_bestSellNoCostR.s = -1

\* C2: after add_action_columns has run for both directions, there is one
\* row per JoinedRace row and direction (the buy rows, then the sell rows);
\* in each, actionSide is the direction, actionProfit is the largest defined
\* profit of the direction's four candidates and actionRec is the label
\* '<Direction> <Yes|No> on the <Democrat|Republican>' of the first
\* candidate, in the order Yes-D, No-R, Yes-R, No-D, that attains it.
C2_SelectsFirstMaximum ==
    pc = "actions" =>
        /\ Len(merged) % 2 = 0
        /\ \A i \in 1..(Len(merged) \div 2) :
             LET n == Len(merged) \div 2
             IN  /\ merged[i].actionSide = "buy"
                 /\ merged[n + i].actionSide = "sell"
                 /\ merged[i].mshortName = merged[n + i].mshortName
                 /\ merged[i].seat = Markets[i].seat
        /\ \A i \in 1..Len(merged) :
             LET row == merged[i]
                 cands == Candidates(row, row.actionSide)
             IN  Defined(cands) # {} =>
                    /\ row.actionProfit = BruteMax(cands)
                    /\ row.actionRec = FirstWith(cands, BruteMax(cands))
                    /\ row.actionRec \in
                         IF row.actionSide = "buy"
                         THEN { "Buy Yes on the Democrat", "Buy No on the Republican",
                                "Buy Yes on the Republican", "Buy No on the Democrat" }
                         ELSE { "Sell Yes on the Democrat", "Sell No on the Republican",
                                "Sell Yes on the Republican", "Sell No on the Democrat" }

\* C2's case: a selection among candidates of which one is undefined and two
\* tie at the maximum; the first of the two in the order is recommended.
C2_Witness ==
    /\ pc = "actions"
    /\ \E i \in 1..Len(merged) :
         /\ merged[i].actionSide = "buy"
         /\ merged[i].profit_bestBuyNoCostD = NaN
         /\ merged[i].profit_bestBuyYesCostD = merged[i].actionProfit
         /\ merged[i].profit_bestBuyNoCostR = merged[i].actionProfit
         /\ Less(merged[i].profit_bestBuyYesCostR, merged[i].actionProfit)
         /\ merged[i].actionRec = "Buy Yes on the Democrat"

\* C3: whatever prices of a row are missing, all four of a direction
\* included, the selection does not fail (the run does not end in the
\* TypeError of line 96) and no selected profit is undefined.
C3_NeverFailsOnMissingPrices ==
    /\ err # "TypeError"
    /\ pc = "actions" => \A i \in 1..Len(merged) : merged[i].actionProfit # NaN

\* The candidates with their profits rounded to 2 places.
RoundedCandidates(row, side) ==
    [k \in 1..4 |-> [Candidates(row, side)[k] EXCEPT !.profit = round2(@)]]

\* The rows of a frame, as a set.
Rows(df) == {df[i] : i \in 1..Len(df)}

\* C4 as stated: the profits are rounded before any comparison, so the rows
\* that lines 112-113 keep are those a selection and a threshold test on the
\* rounded profits keep, with the recommendation and the profit of that
\* selection.
C4_RoundedBeforeComparison ==
    [][pc = "actions" =>
        { <<r.seat, r.actionSide, r.actionRec, round2(r.actionProfit)>> :
              r \in Rows(merged') }
        = { <<r.seat, r.actionSide,
              FirstWith(RoundedCandidates(r, r.actionSide),
                        BruteMax(RoundedCandidates(r, r.actionSide))),
              BruteMax(RoundedCandidates(r, r.actionSide))>> :
              r \in { x \in Rows(merged) :
                        Ge(BruteMax(RoundedCandidates(x, x.actionSide)),
                           MIN_PROFIT_PER_SHARE) } }
    ]_vars

\* The doubles of the whole numbers of hundredths.
Hundredths == { Quotient(k, 100) : k \in -100..100 }

\* C4 amended: the rounding comes after the comparisons.  In every row of
\* the returned frame the recommendation is the first candidate attaining
\* the maximum of the unrounded profits, that unrounded maximum is at least
\* the threshold, and actionProfit is that maximum rounded to 2 places (as
\* fteD and fteR are rounded); the profit columns themselves stay unrounded.
C4_RoundedAfterComparison ==
    pc \in {"ranked", "done"} =>
        \A i \in 1..Len(merged) :
            LET row == merged[i]
                cands == Candidates(row, row.actionSide)
            IN  /\ Defined(cands) # {}
                /\ Ge(BruteMax(cands), MIN_PROFIT_PER_SHARE)
                /\ row.actionRec = FirstWith(cands, BruteMax(cands))
                /\ row.actionProfit = round2(BruteMax(cands))
                /\ row.actionProfit \in Hundredths
                /\ row.fteD \in Hundredths
                /\ row.fteR \in Hundredths

\* C4's case: a returned row whose recommended candidate is not the first
\* among those equal to the maximum after rounding (0.6 - 0.4, which is
\* 0.19999999999999996, and 0.4 - 0.2, which is 0.2, both display as 0.2).
C4_Witness ==
    /\ pc = "ranked"
    /\ \E i \in 1..Len(merged) :
         /\ merged[i].actionSide = "buy"
         /\ merged[i].profit_bestBuyYesCostD # NaN
         /\ merged[i].profit_bestBuyYesCostR # NaN
         /\ Less(merged[i].profit_bestBuyYesCostD, merged[i].profit_bestBuyYesCostR)
         /\ round2(merged[i].profit_bestBuyYesCostD) = merged[i].actionProfit
         /\ round2(merged[i].profit_bestBuyYesCostR) = merged[i].actionProfit
         /\ merged[i].actionRec = "Buy Yes on the Republican"

\* What identifies a selection: its JoinedRace and its direction.
Selection(row) == <<row.mshortName, row.murl, row.seat, row.actionSide>>

\* C5: lines 112-113 keep exactly the selections whose actionProfit is at
\* least the threshold (one equal to it is kept), each once; the rounding
\* keeps them all, and every returned actionProfit is at least the threshold.
C5_KeepsExactlyAtLeastThreshold ==
    [][/\ pc = "actions" =>
            /\ { Selection(r) : r \in Rows(merged') }
                 = { Selection(r) : r \in { x \in Rows(merged) :
                         /\ x.actionProfit # NaN
                         /\ ~Less(x.actionProfit, MIN_PROFIT_PER_SHARE) } }
            /\ Rows(merged') \subseteq Rows(merged)
            /\ Len(merged') = Cardinality({ Selection(r) : r \in Rows(merged') })
       /\ pc = "sorted" =>
            /\ Len(merged') = Len(merged)
            /\ \A i \in 1..Len(merged) :
                 /\ Selection(merged'[i]) = Selection(merged[i])
                 /\ merged'[i].actionProfit # NaN
                 /\ ~Less(merged'[i].actionProfit, MIN_PROFIT_PER_SHARE)
    ]_vars

\* C5's case: a returned frame with a selection whose profit is exactly the
\* threshold, from which another selection has been dropped (of the two
\* selections of each race an odd number is left).
C5_Witness ==
    /\ pc = "ranked"
    /\ Len(merged) % 2 = 1
    /\ \E i \in 1..Len(merged) :
         /\ merged[i].actionProfit = MIN_PROFIT_PER_SHARE
         /\ BruteMax(Candidates(merged[i], merged[i].actionSide)) = MIN_PROFIT_PER_SHARE

\* C6 as stated: the returned frame is ordered by non-increasing
\* actionProfit and, among rows of equal actionProfit, every sell row comes
\* before every buy row.
C6_SellBeforeBuyOnTies ==
    pc = "ranked" =>
        \A i, j \in 1..Len(merged) :
            i < j =>
                /\ ~Less(merged[i].actionProfit, merged[j].actionProfit)
                /\ merged[i].actionProfit = merged[j].actionProfit =>
                       ~(merged[i].actionSide = "buy" /\ merged[j].actionSide = "sell")

\* C6 amended: the frame is ordered by non-increasing actionProfit, before
\* and after the rounding; the order of rows of equal profit is not fixed.
C6_NonIncreasingProfit ==
    pc \in {"sorted", "ranked", "done"} =>
        \A i, j \in 1..Len(merged) :
            i < j => ~Less(merged[i].actionProfit, merged[j].actionProfit)

\* C6's case: a returned frame with a strictly larger profit first and then
\* a buy row and a sell row of equal profit.
C6_Witness ==
    /\ pc = "ranked"
    /\ \E i, j, k \in 1..Len(merged) :
         /\ i < j /\ j < k
         /\ Less(merged[j].actionProfit, merged[i].actionProfit)
         /\ merged[j].actionProfit = merged[k].actionProfit
         /\ merged[j].actionSide # merged[k].actionSide

\* C10: the summary has one record per distinct actionRec of the returned
\* frame; its count is the number of rows with that recommendation and its
\* seat list their seats, in the frame's order, joined by ', '; the counts
\* add up to the number of rows, and the records are ordered by
\* non-increasing count.
C10_SummaryCounts ==
    pc = "done" =>
        LET recs == {merged[i].actionRec : i \in 1..Len(merged)}
            of(l) == SelectSeq(merged, LAMBDA row : row.actionRec = l)
            total[g \in 0..Len(summary)] ==
                IF g = 0 THEN 0 ELSE total[g - 1] + summary[g].murl
        IN  /\ {summary[g].actionRec : g \in 1..Len(summary)} = recs
            /\ Len(summary) = Cardinality(recs)
            /\ \A g \in 1..Len(summary) :
                 /\ summary[g].murl = Len(of(summary[g].actionRec))
                 /\ summary[g].seat =
                      join(", ", [k \in 1..Len(of(summary[g].actionRec)) |->
                                      of(summary[g].actionRec)[k].seat])
            /\ total[Len(summary)] = Len(merged)
            /\ \A g, h \in 1..Len(summary) :
                 g < h => summary[g].murl >= summary[h].murl

\* C10's case: a summary of several records, one of them for two races.
C10_Witness ==
    /\ pc = "done"
    /\ Len(summary) >= 2
    /\ \E g \in 1..Len(summary) :
         /\ summary[g].murl = 2
         /\ summary[g].seat = "OK-SEN, OH-SEN"

-----------------------------------------------------------------------------
(* Properties of the merge (SpecMerge)                                     *)

\* C7: merge_fte_and_pi returns at most one JoinedRace row per race: no two
\* rows have the same market name, URL and seat.
C7_OneRowPerRace ==
    pc = "merged" =>
        \A i, j \in 1..Len(merged) :
            i # j =>
                <<merged[i].mshortName, merged[i].murl, merged[i].seat>>
                    # <<merged[j].mshortName, merged[j].murl, merged[j].seat>>

\* The market names in which a chamber's pattern is found, with the state
\* and the seat the pattern's groups give.
Labelled(chamber_) ==
    IF chamber_ = "senate"
    THEN { [mshortName |-> "Which party will win the OK Senate race?",
            state |-> "OK", seat |-> "OK-SEN"],
           [mshortName |-> "Which party will win the OH Senate race in 2022?",
            state |-> "OH", seat |-> "OH-SEN"] }
    ELSE { [mshortName |-> "Which party will win PA governor's race?",
            state |-> "PA", seat |-> "PA-GOV"] }

\* The state a district's name starts with.
StateOf(district) ==
    IF district \in {"OK-S2", "OK-S3", "OK-G1"} THEN "OK" ELSE "PA"

\* C8: merge_fte_and_pi raises for no market data that has a contract,
\* whatever the contracts and the forecasts fail to match (it raises only
\* for market data without any contract).  A row of the result is there
\* only for a market whose name matches the chamber's pattern, which has a
\* Democratic and a Republican contract of the same market name and URL,
\* whose prices are the row's, and for whose state the file has a forecast
\* of the selected variant, whose probabilities are the row's; the row's
\* seat is the market's.
C8_RowsOnlyForJoinableMarkets ==
    /\ err # "none" => pi_data = <<>>
    /\ pc = "merged" =>
        \A i \in 1..Len(merged) :
            LET row == merged[i]
            IN  \E l \in Labelled(chamber) :
                    /\ row.mshortName = l.mshortName
                    /\ row.seat = l.seat
                    /\ DOMAIN row = DOMAIN JoinedRace(Markets[1], <<0, 0, 0, 0>>,
                                                      <<0, 0, 0, 0>>, <<0, 0>>)
                    /\ \E d, r \in 1..Len(pi_data) :
                         /\ pi_data[d].cname = "Democratic"
                         /\ pi_data[r].cname = "Republican"
                         /\ pi_data[d].mshortName = row.mshortName
                         /\ pi_data[r].mshortName = row.mshortName
                         /\ pi_data[d].murl = row.murl
                         /\ pi_data[r].murl = row.murl
                         /\ row.bestBuyYesCostD = pi_data[d].cbestBuyYesCost
                         /\ row.bestBuyNoCostD = pi_data[d].cbestBuyNoCost
                         /\ row.bestSellYesCostD = pi_data[d].cbestSellYesCost
                         /\ row.bestSellNoCostD = pi_data[d].cbestSellNoCost
                         /\ row.bestBuyYesCostR = pi_data[r].cbestBuyYesCost
                         /\ row.bestBuyNoCostR = pi_data[r].cbestBuyNoCost
                         /\ row.bestSellYesCostR = pi_data[r].cbestSellYesCost
                         /\ row.bestSellNoCostR = pi_data[r].cbestSellNoCost
                    /\ \E k \in 1..Len(csv) :
                         /\ csv[k].expression = "_classic"
                         /\ StateOf(csv[k].district) = l.state
                         /\ row.fteD = csv[k].winner_Dparty
                         /\ row.fteR = csv[k].winner_Rparty

\* C8's case: a result with a row, from market data that also has a market
\* of another kind with both contracts, a matching market with one contract
\* only and a contract of a third party, and from a file with a forecast
\* of the selected variant.
C8_Witness ==
    /\ pc = "merged"
    /\ Len(merged) = 1
    /\ \E a, b, c \in 1..Len(pi_data) :
         /\ re_search(patterns(chamber), pi_data[a].mshortName) = <<>>
         /\ re_search(patterns(chamber), pi_data[b].mshortName) # <<>>
         /\ pi_data[b].mshortName # merged[1].mshortName
         /\ pi_data[c].cname = "Libertarian"

\* The positions of the file's rows that are the first of the selected
\* variant for their district.
FirstOfVariant ==
    { k \in 1..Len(csv) :
        /\ csv[k].expression = "_classic"
        /\ \A j \in 1..(k - 1) :
             ~(csv[j].expression = "_classic" /\ csv[j].district = csv[k].district) }

\* C9: _get_fte_data keeps one record for each district that has a row of
\* the selected variant, the first such row of the district in the file's
\* order, and nothing else.
C9_FirstRowOfSelectedVariant ==
    pc \in {"fte", "parties", "merged"} =>
        /\ Len(fte) = Cardinality(FirstOfVariant)
        /\ \A k \in FirstOfVariant :
             \E i \in 1..Len(fte) :
                 /\ fte[i].state = StateOf(csv[k].district)
                 /\ fte[i].winner_Dparty = csv[k].winner_Dparty
                 /\ fte[i].winner_Rparty = csv[k].winner_Rparty
        /\ \A i \in 1..Len(fte) : DOMAIN fte[i] = {"state", "winner_Dparty", "winner_Rparty"}

\* C9's case: a file whose first row is of another variant, followed by two
\* rows of the selected variant, all three of one district; the second row
\* is the one kept.
C9_Witness ==
    /\ pc = "fte"
    /\ Len(csv) = 3
    /\ csv[1].expression = "_deluxe"
    /\ csv[2].expression = "_classic"
    /\ csv[3].expression = "_classic"
    /\ csv[1].district = csv[2].district
    /\ csv[2].district = csv[3].district
    /\ Len(fte) = 1
    /\ fte[1].winner_Dparty = csv[2].winner_Dparty

=============================================================================
